---------------------------- MODULE Spec2Model ----------------------------
(***************************************************************************)
(* State-machine model of the @tanstack/ai normalization core:             *)
(*   - the AI facade                  (packages/ai/src/ai.ts)              *)
(*   - the OpenAI provider adapter    (packages/ai-openai/src/...)         *)
(*   - the structured-output extractor of the Anthropic text adapter       *)
(* Each part has its own specification (SpecFacade, SpecAdapter,           *)
(* SpecStructured); the variables of the other parts stay at their         *)
(* initial value.                                                          *)
(***************************************************************************)
EXTENDS Naturals, Sequences, FiniteSets

VARIABLES
    adapter,     \* AI.adapter: the facade's only field
    lastSet,     \* history: argument of the latest constructor/setAdapter call
    firstAdapter, \* history: the constructor's argument
    calls,       \* history: one record per facade call issued so far
    op,          \* OpenAI adapter: the operation of the current invocation
    opts,        \* its options object (<<>> before the first invocation)
    pc,          \* where the invocation stands
    requests,    \* history: payloads handed to the provider client by it
    response,    \* <<r>>: what the client resolved to (non-streamed)
    events,      \* the provider events read from the open stream so far
    emitted,     \* the chunks the generator has yielded so far
    result,      \* <<r>>: what the operation resolved to
    error,       \* the error the invocation failed with, or "none"
    thrown,      \* history: the error the provider client threw, or "none"
    streamOpen,  \* whether the client's stream iteration is open
    soOptions,   \* structuredOutput: the chat options of the call
    soSchema,    \* the caller's target schema
    soMode,      \* the extraction mode selected for the call
    soPc,        \* where the call stands
    soRequests,  \* history: payloads handed to the provider client by it
    soResponse,  \* the content blocks the client resolved to
    soResult,    \* <<r>>: what the call resolved to
    soError,     \* the error the call failed with, or "none"
    fmMessages,  \* formatMessages: the unified messages of the conversation
    fmTurns,     \* the provider turns built from them
    fmPc         \* where the translation stands

facadeVars == <<adapter, lastSet, firstAdapter, calls>>

adapterVars == <<op, opts, pc, requests, response, events, emitted, result,
                 error, thrown, streamOpen>>

structVars == <<soOptions, soSchema, soMode, soPc, soRequests, soResponse,
                soResult, soError>>

messageVars == <<fmMessages, fmTurns, fmPc>>

vars == <<adapter, lastSet, firstAdapter, calls, op, opts, pc, requests,
          response, events, emitted, result, error, thrown, streamOpen,
          soOptions, soSchema, soMode, soPc, soRequests, soResponse,
          soResult, soError, fmMessages, fmTurns, fmPc>>

(***************************************************************************)
(* Bounds                                                                  *)
(***************************************************************************)
MaxCalls == 1      \* facade calls issued in one behaviour
MaxChunks == 1     \* chunks a mock adapter stream produces
MaxEvents == 2     \* provider events read from one stream
MaxInputs == 2     \* strings in the `input` list of an embedding call
MaxMessages == 3    \* messages in a conversation handed to formatMessages
MaxTextLen == 5    \* tokens in the text block of a structured-output response

(***************************************************************************)
(* The facade: packages/ai/src/ai.ts                                       *)
(***************************************************************************)

\* Two of the adapters the example program swaps between
\* (examples/cli/src/utils.ts), by name.
Adapters == {"openai", "anthropic"}

\* `stream?: boolean` of the unified options: absent, true or false.
StreamFlags == {"absent", "true", "false"}

\* The options objects a caller hands to the facade.  The facade never looks
\* inside them; `model` stands for every field other than `stream`.
FacadeOptions == [model : {"gpt-4"}, stream : StreamFlags]

PromiseMethods == {"chat", "generateText", "summarize", "embed"}
StreamMethods == {"chatStream", "generateTextStream"}

\* The adapter method each facade method delegates to.
AdapterMethod(m) ==
    CASE m = "chat" -> "chatCompletion"
      [] m = "chatStream" -> "chatCompletionStream"
      [] m = "generateText" -> "generateText"
      [] m = "generateTextStream" -> "generateTextStream"
      [] m = "summarize" -> "summarize"
      [] m = "embed" -> "createEmbeddings"

\* What adapter a resolves to for method am called with options o (the
\* AIAdapter interface: an opaque value tagged with its producer).
AdapterResult(a, am, o) == [by |-> a, method |-> am, seen |-> o, n |-> 0]

\* The chunk sequence adapter a produces for stream method am: k chunks.
AdapterStream(a, am, o, k) ==
    [i \in 1..k |-> [by |-> a, method |-> am, seen |-> o, n |-> i]]

\* Variant: the options are passed on without the `stream` override.
SpreadKeepsCallerStream(o) == o

\* `{ ...options, stream: true }`
SpreadStreamTrue(o) == [o EXCEPT !.stream = "true"]

\* constructor(adapter) { this.adapter = adapter }
constructor(a) ==
    /\ adapter = a
    /\ lastSet = a
    /\ firstAdapter = a
    /\ calls = <<>>

\* get adapterName() { return this.adapter.name }
adapterName ==
    /\ Len(calls) < MaxCalls
    /\ calls' = Append(calls,
          [method |-> "adapterName", issuedUnder |-> lastSet,
           swapped |-> FALSE, state |-> "done",
           servedBy |-> adapter, expected |-> lastSet,
           returned |-> <<adapter>>])
    /\ UNCHANGED <<adapter, lastSet, firstAdapter>>
    /\ UNCHANGED <<adapterVars, structVars, messageVars>>

\* The errors the provider client rejects or throws with (a connection
\* failure, an HTTP error status).
TransportErrors == {"APIConnectionError", "RateLimitError"}

\* How an adapter promise settles: resolved, or rejected with the error the
\* provider client threw.
Settlements == {"resolved"} \cup TransportErrors

\* A promise-returning method: the adapter method is invoked synchronously
\* with the caller's options and its promise is returned as is, so the caller
\* sees it settle the way the adapter settles it.
Delegate(m, o) ==
    /\ Len(calls) < MaxCalls
    /\ \E s \in Settlements :
          calls' = Append(calls,
             [method |-> m, options |-> o, issuedUnder |-> lastSet,
              swapped |-> FALSE,
              state |-> IF s = "resolved" THEN "done" ELSE "failed",
              servedBy |-> adapter, expected |-> lastSet,
              received |-> <<o>>, adapterMethod |-> AdapterMethod(m),
              produced |-> IF s = "resolved"
                  THEN <<AdapterResult(adapter, AdapterMethod(m), o)>>
                  ELSE <<>>,
              returned |-> IF s = "resolved"
                  THEN <<AdapterResult(adapter, AdapterMethod(m), o)>>
                  ELSE <<>>,
              thrown |-> IF s = "resolved" THEN "none" ELSE s,
              error |-> IF s = "resolved" THEN "none" ELSE s])
    /\ UNCHANGED <<adapter, lastSet, firstAdapter>>
    /\ UNCHANGED <<adapterVars, structVars, messageVars>>

AI_chat(o) == Delegate("chat", o)

AI_generateText(o) == Delegate("generateText", o)

AI_summarize(o) == Delegate("summarize", o)

AI_embed(o) == Delegate("embed", o)

\* Calling an async generator method only creates the generator object: no
\* statement of its body runs before the first next().
CreateGenerator(m, o) ==
    /\ Len(calls) < MaxCalls
    /\ calls' = Append(calls,
          [method |-> m, options |-> o, issuedUnder |-> lastSet,
           swapped |-> FALSE, state |-> "suspended",
           servedBy |-> "none", expected |-> "none",
           received |-> <<>>, adapterMethod |-> AdapterMethod(m),
           produced |-> <<>>, returned |-> <<>>,
           thrown |-> "none", error |-> "none"])
    /\ UNCHANGED <<adapter, lastSet, firstAdapter>>
    /\ UNCHANGED <<adapterVars, structVars, messageVars>>

AI_chatStream(o) == CreateGenerator("chatStream", o)

AI_generateTextStream(o) == CreateGenerator("generateTextStream", o)

\* The first next() of a facade generator: evaluates
\* `this.adapter.<method>({ ...options, stream: true })` and, by yield*,
\* hands out the adapter's first chunk (or completes if it has none).
FirstPull(i, k) ==
    /\ calls[i].state = "suspended"
    /\ LET c == calls[i]
           o2 == SpreadStreamTrue(c.options)
           p == AdapterStream(adapter, c.adapterMethod, o2, k)
       IN calls' = [calls EXCEPT ![i] =
              [c EXCEPT !.servedBy = adapter, !.expected = lastSet,
                        !.received = <<o2>>, !.produced = p,
                        !.returned = IF k = 0 THEN <<>> ELSE <<p[1]>>,
                        !.state = IF k = 0 THEN "done" ELSE "running"]]
    /\ UNCHANGED <<adapter, lastSet, firstAdapter>>
    /\ UNCHANGED <<adapterVars, structVars, messageVars>>

\* A later next(): yield* hands out the adapter's next chunk, or completes.
NextPull(i) ==
    /\ calls[i].state = "running"
    /\ LET c == calls[i]
           n == Len(c.returned)
       IN calls' = [calls EXCEPT ![i] =
              IF n < Len(c.produced)
              THEN [c EXCEPT !.returned = Append(c.returned, c.produced[n + 1])]
              ELSE [c EXCEPT !.state = "done"]]
    /\ UNCHANGED <<adapter, lastSet, firstAdapter>>
    /\ UNCHANGED <<adapterVars, structVars, messageVars>>

\* A next() during which the adapter's generator throws (the request or a
\* read of the stream failed): yield* lets the error through, the pending
\* next() rejects with it and the facade generator is finished.  On the
\* first next() the adapter method is invoked before it fails.
PullThrows(i) ==
    /\ calls[i].state \in {"suspended", "running"}
    /\ \E e \in TransportErrors :
          LET c == calls[i]
          IN calls' = [calls EXCEPT ![i] =
                 IF c.state = "suspended"
                 THEN [c EXCEPT !.servedBy = adapter, !.expected = lastSet,
                                !.received = <<SpreadStreamTrue(c.options)>>,
                                !.state = "failed",
                                !.thrown = e, !.error = e]
                 ELSE [c EXCEPT !.produced = c.returned,
                                !.state = "failed",
                                !.thrown = e, !.error = e]]
    /\ UNCHANGED <<adapter, lastSet, firstAdapter>>
    /\ UNCHANGED <<adapterVars, structVars, messageVars>>

\* Variant: the assignment to this.adapter is lost.
setAdapterKeepsFirst(a) ==
    /\ lastSet' = a
    /\ calls' = [i \in 1..Len(calls) |->
                   IF calls[i].state = "suspended"
                   THEN [calls[i] EXCEPT !.swapped = TRUE] ELSE calls[i]]
    /\ UNCHANGED <<adapter, firstAdapter>>
    /\ UNCHANGED <<adapterVars, structVars, messageVars>>

\* setAdapter(adapter) { this.adapter = adapter }
setAdapter(a) ==
    /\ adapter' = a
    /\ lastSet' = a
    /\ calls' = [i \in 1..Len(calls) |->
                   IF calls[i].state = "suspended"
                   THEN [calls[i] EXCEPT !.swapped = TRUE] ELSE calls[i]]
    /\ UNCHANGED firstAdapter
    /\ UNCHANGED <<adapterVars, structVars, messageVars>>

(***************************************************************************)
(* The OpenAI adapter: packages/ai-openai/src/openai-adapter.ts            *)
(* Text the adapter concatenates or tests for emptiness is a sequence of   *)
(* characters; the other strings are TLA+ strings.                         *)
(***************************************************************************)

\* null / undefined where a character sequence is expected.
Null == <<"<null>">>

\* JavaScript truthiness of an optional string: neither null nor "".
Truthy(s) == s # Null /\ s # <<>>

\* Variant: no default is substituted.
OrElseKeepsEmpty(v, d) == v

\* `a || b` on TLA+ strings ("" is the falsy one).

OrElse(v, d) == IF v = "" THEN d ELSE v

\* `content || ""` on character sequences.
OrEmpty(s) == IF Truthy(s) THEN s ELSE <<>>

\* `response.usage?.<field> || 0`
UsageOrZero(u) ==
    IF u.present
    THEN [promptTokens |-> u.prompt_tokens,
          completionTokens |-> u.completion_tokens,
          totalTokens |-> u.total_tokens]
    ELSE [promptTokens |-> 0, completionTokens |-> 0, totalTokens |-> 0]

\* All sequences over S of length at most n.
SeqsUpTo(S, n) == UNION {[1..k -> S] : k \in 0..n}

\* ---- the unified options objects (packages/ai/src/types.ts) ----

ModelNames == {"", "gpt-4"}

\* The optional sampling fields, all absent or all set.
NoSampling ==
    [temperature |-> "undefined", maxTokens |-> "undefined",
     topP |-> "undefined", frequencyPenalty |-> "undefined",
     presencePenalty |-> "undefined", stopSequences |-> "undefined"]

SomeSampling ==
    [temperature |-> "0.4", maxTokens |-> "100", topP |-> "0.9",
     frequencyPenalty |-> "0.1", presencePenalty |-> "0.2",
     stopSequences |-> "[END]"]

MessageLists ==
    { <<>>,
      <<[role |-> "user", content |-> "Hi", name |-> "undefined"]>>,
      <<[role |-> "system", content |-> "Be brief", name |-> "undefined"],
        [role |-> "user", content |-> "Hi", name |-> "bob"]>> }

ChatCompletionOptions ==
    [model : ModelNames, messages : MessageLists, sampling : {NoSampling},
     stream : {"absent"}]
    \cup [model : {"gpt-4"}, messages : {<<>>}, sampling : {SomeSampling},
          stream : {"true", "false"}]

TextGenerationOptions ==
    [model : ModelNames, prompt : {"", "Write a haiku"},
     sampling : {NoSampling}, stream : {"absent"}]
    \cup [model : {"gpt-4"}, prompt : {"Write a haiku"},
          sampling : {SomeSampling}, stream : {"true", "false"}]

SummarizationOptions ==
    [model : ModelNames, text : {"", "The quick brown fox"},
     maxLength : {"undefined"}, style : {"undefined"}, focus : {<<>>}]
    \cup [model : {"gpt-4"}, text : {"The quick brown fox"},
          maxLength : {"50"}, style : {"bullet-points", "paragraph", "concise"},
          focus : {<<>>, <<"animals", "speed">>}]

\* `input: string | string[]`: one string, or a list of strings.
EmbeddingInputs ==
    [isList : {FALSE}, items : {<<"x">>, <<"y">>}]
    \cup [isList : {TRUE}, items : SeqsUpTo({"x", "y"}, MaxInputs)]

EmbeddingOptions ==
    [model : ModelNames, input : EmbeddingInputs, dimensions : {"undefined"}]
    \cup [model : {"ada"}, input : {[isList |-> FALSE, items |-> <<"x">>]},
          dimensions : {"256"}]

\* ---- the payloads handed to the provider client ----

\* messages: options.messages.map(msg => ({role, content, name}))
MapMessages(msgs) ==
    [i \in 1..Len(msgs) |->
        [role |-> msgs[i].role, content |-> msgs[i].content,
         name |-> msgs[i].name]]

ChatPayload(o, streaming) ==
    [endpoint |-> "chat.completions",
     model |-> OrElse(o.model, "gpt-3.5-turbo"),
     messages |-> MapMessages(o.messages),
     temperature |-> o.sampling.temperature,
     max_tokens |-> o.sampling.maxTokens,
     top_p |-> o.sampling.topP,
     frequency_penalty |-> o.sampling.frequencyPenalty,
     presence_penalty |-> o.sampling.presencePenalty,
     stop |-> o.sampling.stopSequences,
     stream |-> streaming]

chatCompletionPayload(o) == ChatPayload(o, FALSE)

chatCompletionStreamPayload(o) == ChatPayload(o, TRUE)

TextPayload(o, streaming) ==
    [endpoint |-> "completions",
     model |-> OrElse(o.model, "gpt-3.5-turbo-instruct"),
     prompt |-> o.prompt,
     max_tokens |-> o.sampling.maxTokens,
     temperature |-> o.sampling.temperature,
     top_p |-> o.sampling.topP,
     frequency_penalty |-> o.sampling.frequencyPenalty,
     presence_penalty |-> o.sampling.presencePenalty,
     stop |-> o.sampling.stopSequences,
     stream |-> streaming]

generateTextPayload(o) == TextPayload(o, FALSE)

generateTextStreamPayload(o) == TextPayload(o, TRUE)

\* The prompt is assembled from fixed sentences; it is kept as the list of
\* the parts that were appended.
buildSummarizationPrompt(o) ==
    <<"You are a professional summarizer. ">>
    \o << CASE o.style = "bullet-points" -> "bullet point format"
            [] o.style = "paragraph" -> "paragraph format"
            [] o.style = "concise" -> "1-2 sentences"
            [] OTHER -> "clear and concise" >>
    \o (IF Len(o.focus) > 0 THEN <<"focus", o.focus>> ELSE <<>>)
    \o (IF o.maxLength # "undefined" THEN <<"under", o.maxLength>> ELSE <<>>)

summarizePayload(o) ==
    [endpoint |-> "chat.completions",
     model |-> OrElse(o.model, "gpt-3.5-turbo"),
     messages |-> <<[role |-> "system",
                     content |-> buildSummarizationPrompt(o)],
                    [role |-> "user", content |-> o.text]>>,
     max_tokens |-> o.maxLength,
     temperature |-> "0.3",
     stream |-> FALSE]

\* Variant: the chat default model is used for embeddings.
createEmbeddingsPayloadChatDefault(o) ==
    [endpoint |-> "embeddings",
     model |-> OrElse(o.model, "gpt-3.5-turbo"),
     input |-> o.input,
     dimensions |-> o.dimensions]

\* createEmbeddings: the object handed to client.embeddings.create
createEmbeddingsPayload(o) ==
    [endpoint |-> "embeddings",
     model |-> OrElse(o.model, "text-embedding-ada-002"),
     input |-> o.input,
     dimensions |-> o.dimensions]

\* ---- what the provider client (the `openai` package) hands back ----

Usages ==
    { [present |-> FALSE, prompt_tokens |-> 0, completion_tokens |-> 0,
       total_tokens |-> 0],
      [present |-> TRUE, prompt_tokens |-> 3, completion_tokens |-> 5,
       total_tokens |-> 8] }

\* A non-streamed chat completion; `content` may be null.
ChatResponses ==
    [id : {"chatcmpl-1"}, model : {"gpt-4-0613"},
     choices : { <<[message |-> [content |-> c], finish_reason |-> f]>> :
                   c \in {Null, <<>>, <<"a">>, <<"a", "b">>},
                   f \in {"stop", "length"} },
     usage : Usages]

\* A non-streamed text completion.
TextResponses ==
    [id : {"cmpl-1"}, model : {"gpt-3.5-turbo-instruct"},
     choices : { <<[text |-> t, finish_reason |-> f]>> :
                   t \in {<<>>, <<"a">>}, f \in {"stop", "length"} },
     usage : Usages]

\* The embedding the provider computes for one input string.
Vec(s) == IF s = "x" THEN <<1, 0>> ELSE <<0, 1>>

\* The inputs of an embedding request, in order: a single string counts as
\* one input.
InputStrings(input) == input.items

\* The embeddings endpoint answers with one entry per input, in input order.
EmbeddingResponse(payload) ==
    [model |-> payload.model,
     data |-> [i \in 1..Len(InputStrings(payload.input)) |->
                 [embedding |-> Vec(InputStrings(payload.input)[i]),
                  index |-> i - 1]],
     usage |-> [prompt_tokens |-> 2, total_tokens |-> 2]]

\* One event of a streamed chat completion: at most one choice, whose delta
\* may carry content and a role, and whose finish_reason is set on the
\* terminal event; or a choice-less event carrying the usage totals.
ChatEvents ==
    [id : {"chatcmpl-1"}, model : {"gpt-4-0613"},
     choices : { <<[delta |-> [content |-> c, role |-> r],
                    finish_reason |-> f]>> :
                   c \in {Null, <<>>, <<"a">>, <<"b">>},
                   r \in {"assistant", "undefined"},
                   f \in {"null", "stop"} },
     usage : {"absent"}]
    \cup [id : {"chatcmpl-1"}, model : {"gpt-4-0613"}, choices : {<<>>},
          usage : {"present"}]

\* One event of a streamed text completion.
TextEvents ==
    [choices : { <<[text |-> t]>> : t \in {Null, <<>>, <<"a">>, <<"b">>} }
               \cup {<<>>}]

\* ---- results and chunks built by the adapter ----

chatCompletionResult(r) ==
    LET choice == r.choices[1]
    IN [id |-> r.id, model |-> r.model,
        content |-> OrEmpty(choice.message.content),
        role |-> "assistant",
        finishReason |-> choice.finish_reason,
        usage |-> UsageOrZero(r.usage)]

generateTextResult(r) ==
    LET choice == r.choices[1]
    IN [id |-> r.id, model |-> r.model, text |-> choice.text,
        finishReason |-> choice.finish_reason,
        usage |-> UsageOrZero(r.usage)]

summarizeResult(r) ==
    [id |-> r.id, model |-> r.model,
     summary |-> OrEmpty(r.choices[1].message.content),
     usage |-> UsageOrZero(r.usage)]

\* BaseAdapter.generateId(): a locally generated token.
generateId == "generated-id"

\* Variant: only the first entry of response.data is kept.
createEmbeddingsResultFirstOnly(r) ==
    [id |-> generateId, model |-> r.model,
     embeddings |-> [i \in 1..(IF Len(r.data) = 0 THEN 0 ELSE 1) |->
                       r.data[i].embedding],
     usage |-> [promptTokens |-> r.usage.prompt_tokens,
                totalTokens |-> r.usage.total_tokens]]

\* embeddings: response.data.map(d => d.embedding)
createEmbeddingsResult(r) ==
    [id |-> generateId, model |-> r.model,
     embeddings |-> [i \in 1..Len(r.data) |-> r.data[i].embedding],
     usage |-> [promptTokens |-> r.usage.prompt_tokens,
                totalTokens |-> r.usage.total_tokens]]

\* Variant: an event that carries a finish reason is never yielded.
ChatShouldYieldUnlessFinished(ev) ==
    /\ Len(ev.choices) > 0
    /\ Truthy(ev.choices[1].delta.content)
    /\ ev.choices[1].finish_reason = "null"

\* `if (delta?.content)` with delta = chunk.choices[0]?.delta
ChatShouldYield(ev) ==
    /\ Len(ev.choices) > 0
    /\ Truthy(ev.choices[1].delta.content)

\* The chunk yielded for an event that passed ChatShouldYield.
ChatChunk(ev) ==
    [id |-> ev.id, model |-> ev.model,
     content |-> ev.choices[1].delta.content,
     role |-> ev.choices[1].delta.role,
     finishReason |-> ev.choices[1].finish_reason]

\* `if (chunk.choices[0]?.text)`
TextShouldYield(ev) ==
    /\ Len(ev.choices) > 0
    /\ Truthy(ev.choices[1].text)

TextChunk(ev) == ev.choices[1].text

StreamOps == {"chatCompletionStream", "generateTextStream"}

\* One invocation is followed from its call to its end.
Free == pc = "idle"

\* A promise-returning operation up to its `await`: the payload is built and
\* the client is called.
Begin(name, o, payload) ==
    /\ Free
    /\ op' = name
    /\ opts' = o
    /\ requests' = <<payload>>
    /\ pc' = "awaiting"
    /\ response' = <<>>
    /\ events' = <<>>
    /\ emitted' = <<>>
    /\ result' = <<>>
    /\ error' = "none"
    /\ thrown' = "none"
    /\ streamOpen' = FALSE
    /\ UNCHANGED <<facadeVars, structVars, messageVars>>

chatCompletion(o) == Begin("chatCompletion", o, chatCompletionPayload(o))

generateText(o) == Begin("generateText", o, generateTextPayload(o))

summarize(o) == Begin("summarize", o, summarizePayload(o))

createEmbeddings(o) ==
    Begin("createEmbeddings", o, createEmbeddingsPayload(o))

\* The client's promise resolves and the operation builds its result.
Resolve(name, r, res) ==
    /\ pc = "awaiting"
    /\ op = name
    /\ response' = <<r>>
    /\ result' = <<res>>
    /\ pc' = "done"
    /\ UNCHANGED <<op, opts, requests, events, emitted, error, streamOpen,
                   thrown>>
    /\ UNCHANGED <<facadeVars, structVars, messageVars>>

chatCompletionResolved ==
    \E r \in ChatResponses :
        Resolve("chatCompletion", r, chatCompletionResult(r))

generateTextResolved ==
    \E r \in TextResponses :
        Resolve("generateText", r, generateTextResult(r))

summarizeResolved ==
    \E r \in ChatResponses : Resolve("summarize", r, summarizeResult(r))

createEmbeddingsResolved ==
    LET r == EmbeddingResponse(requests[1])
    IN Resolve("createEmbeddings", r, createEmbeddingsResult(r))

\* Variant: a rejected client call is issued once more.
TransportRejectRetries ==
    /\ pc = "awaiting"
    /\ Len(requests) < 2
    /\ requests' = Append(requests, requests[1])
    /\ UNCHANGED <<op, opts, pc, response, events, emitted, result, error,
                   streamOpen, thrown>>
    /\ UNCHANGED <<facadeVars, structVars, messageVars>>

\* The client's promise rejects: nothing catches it, the operation (or the
\* pending next() of a generator) rejects with the same error.
TransportReject ==
    /\ pc = "awaiting"
    /\ pc' = "failed"
    /\ \E e \in TransportErrors : thrown' = e /\ error' = e
    /\ UNCHANGED <<op, opts, requests, response, events, emitted, result,
                   streamOpen>>
    /\ UNCHANGED <<facadeVars, structVars, messageVars>>

\* Calling a generator method creates the generator; its body has not run.
CreateStream(name, o) ==
    /\ Free
    /\ op' = name
    /\ opts' = o
    /\ pc' = "suspended"
    /\ requests' = <<>>
    /\ response' = <<>>
    /\ events' = <<>>
    /\ emitted' = <<>>
    /\ result' = <<>>
    /\ error' = "none"
    /\ thrown' = "none"
    /\ streamOpen' = FALSE
    /\ UNCHANGED <<facadeVars, structVars, messageVars>>

chatCompletionStream(o) == CreateStream("chatCompletionStream", o)

generateTextStream(o) == CreateStream("generateTextStream", o)

\* The consumer's first next(): the body runs up to the `await` of the
\* client call.
StreamFirstNext ==
    /\ pc = "suspended"
    /\ requests' = Append(requests,
          IF op = "chatCompletionStream"
          THEN chatCompletionStreamPayload(opts)
          ELSE generateTextStreamPayload(opts))
    /\ pc' = "awaiting"
    /\ UNCHANGED <<op, opts, response, events, emitted, result, error,
                   streamOpen, thrown>>
    /\ UNCHANGED <<facadeVars, structVars, messageVars>>

\* The client resolves to the open stream; `for await` starts iterating it.
StreamOpened ==
    /\ pc = "awaiting"
    /\ op \in StreamOps
    /\ pc' = "reading"
    /\ streamOpen' = TRUE
    /\ UNCHANGED <<op, opts, requests, response, events, emitted, result,
                   error, thrown>>
    /\ UNCHANGED <<facadeVars, structVars, messageVars>>

\* Variant: the chunk is kept and the loop reads on without suspending.
ReadEventNoSuspend(ev, yields, chunk) ==
    /\ pc = "reading"
    /\ Len(events) < MaxEvents
    /\ events' = Append(events, ev)
    /\ emitted' = IF yields THEN Append(emitted, chunk) ELSE emitted
    /\ pc' = "reading"
    /\ UNCHANGED <<op, opts, requests, response, result, error, streamOpen,
                   thrown>>
    /\ UNCHANGED <<facadeVars, structVars, messageVars>>

\* One turn of the `for await` loop: the next event is read and either
\* yielded as a chunk (the generator suspends) or skipped (the loop reads on).
ReadEvent(ev, yields, chunk) ==
    /\ pc = "reading"
    /\ Len(events) < MaxEvents
    /\ events' = Append(events, ev)
    /\ emitted' = IF yields THEN Append(emitted, chunk) ELSE emitted
    /\ pc' = IF yields THEN "yielded" ELSE "reading"
    /\ UNCHANGED <<op, opts, requests, response, result, error, streamOpen,
                   thrown>>
    /\ UNCHANGED <<facadeVars, structVars, messageVars>>

chatCompletionStreamEvent ==
    /\ op = "chatCompletionStream"
    /\ \E ev \in ChatEvents :
          ReadEvent(ev, ChatShouldYield(ev),
                    IF ChatShouldYield(ev) THEN ChatChunk(ev) ELSE <<>>)

generateTextStreamEvent ==
    /\ op = "generateTextStream"
    /\ \E ev \in TextEvents :
          ReadEvent(ev, TextShouldYield(ev),
                    IF TextShouldYield(ev) THEN TextChunk(ev) ELSE <<>>)

\* A later next() of the consumer resumes the loop after the yield.
StreamNext ==
    /\ pc = "yielded"
    /\ pc' = "reading"
    /\ UNCHANGED <<op, opts, requests, response, events, emitted, result,
                   error, streamOpen, thrown>>
    /\ UNCHANGED <<facadeVars, structVars, messageVars>>

\* The stream signals completion: the loop ends and the generator returns.
StreamEnd ==
    /\ pc = "reading"
    /\ pc' = "done"
    /\ streamOpen' = FALSE
    /\ UNCHANGED <<op, opts, requests, response, events, emitted, result,
                   error, thrown>>
    /\ UNCHANGED <<facadeVars, structVars, messageVars>>

\* Variant: a failed read is caught and the stream just ends.
StreamReadFailsEndsQuietly ==
    /\ pc = "reading"
    /\ pc' = "done"
    /\ \E e \in TransportErrors : thrown' = e
    /\ streamOpen' = FALSE
    /\ UNCHANGED <<op, opts, requests, response, events, emitted, result,
                   error>>
    /\ UNCHANGED <<facadeVars, structVars, messageVars>>

\* A read of the open stream throws: the loop is left, the pending next()
\* rejects with the error.
StreamReadFails ==
    /\ pc = "reading"
    /\ pc' = "failed"
    /\ \E e \in TransportErrors : thrown' = e /\ error' = e
    /\ streamOpen' = FALSE
    /\ UNCHANGED <<op, opts, requests, response, events, emitted, result>>
    /\ UNCHANGED <<facadeVars, structVars, messageVars>>

\* The consumer stops iterating (break / return()) while the generator is
\* suspended: `for await` closes the client's iterator if it was opened.
ConsumerStops ==
    /\ pc \in {"suspended", "yielded"}
    /\ pc' = "closed"
    /\ streamOpen' = FALSE
    /\ UNCHANGED <<op, opts, requests, response, events, emitted, result,
                   error, thrown>>
    /\ UNCHANGED <<facadeVars, structVars, messageVars>>

(***************************************************************************)
(* The structured-output extractor of the Anthropic text adapter           *)
(* (AnthropicTextAdapter.structuredOutput).  JSON text is a sequence of    *)
(* tokens; a JSON value is a record [kind, members], `members` being the   *)
(* ordered key/value list of an object.                                    *)
(***************************************************************************)

JsonTokens == {"{", "}", ":", ",", "1", "a", "b"}

JsonKeys == {"a", "b"}

JsonNumber == [kind |-> "number", members |-> <<>>]

JsonString(s) == [kind |-> "string:" \o s, members |-> <<>>]

JsonObject(ms) == [kind |-> "object", members |-> ms]

\* obj[k] = v on an ordered object: a repeated key keeps its first place.
SetMember(ms, k, v) ==
    IF \E i \in 1..Len(ms) : ms[i].key = k
    THEN [i \in 1..Len(ms) |->
            IF ms[i].key = k THEN [key |-> k, value |-> v] ELSE ms[i]]
    ELSE Append(ms, [key |-> k, value |-> v])

ParseFailure == [ok |-> FALSE, value |-> JsonNumber, next |-> 0]

RECURSIVE ParseValue(_, _), ParseMembers(_, _, _)
\* Parses one value of token list t starting at position i.
ParseValue(t, i) ==
    IF i > Len(t) THEN ParseFailure
    ELSE IF t[i] = "1" THEN [ok |-> TRUE, value |-> JsonNumber, next |-> i + 1]
    ELSE IF t[i] \in JsonKeys
         THEN [ok |-> TRUE, value |-> JsonString(t[i]), next |-> i + 1]
    ELSE IF t[i] = "{"
         THEN IF i + 1 <= Len(t) /\ t[i + 1] = "}"
              THEN [ok |-> TRUE, value |-> JsonObject(<<>>), next |-> i + 2]
              ELSE ParseMembers(t, i + 1, <<>>)
    ELSE ParseFailure

\* Parses `key : value` pairs separated by "," up to the closing brace.
ParseMembers(t, i, acc) ==
    IF i + 1 > Len(t) \/ t[i] \notin JsonKeys \/ t[i + 1] # ":"
    THEN ParseFailure
    ELSE LET r == ParseValue(t, i + 2)
         IN IF ~r.ok \/ r.next > Len(t) THEN ParseFailure
            ELSE IF t[r.next] = "}"
                 THEN [ok |-> TRUE,
                       value |-> JsonObject(SetMember(acc, t[i], r.value)),
                       next |-> r.next + 1]
            ELSE IF t[r.next] = ","
                 THEN ParseMembers(t, r.next + 1, SetMember(acc, t[i], r.value))
            ELSE ParseFailure

\* JSON.parse: the whole text must be one value.
JsonParse(t) ==
    LET r == ParseValue(t, 1)
    IN IF r.ok /\ r.next = Len(t) + 1
       THEN [ok |-> TRUE, value |-> r.value]
       ELSE [ok |-> FALSE, value |-> JsonNumber]

RECURSIVE JsonStringify(_), StringifyMembers(_, _)
\* JSON.stringify of a value.
JsonStringify(v) ==
    IF v.kind = "object"
    THEN <<"{">> \o StringifyMembers(v.members, 1) \o <<"}">>
    ELSE IF v.kind = "number" THEN <<"1">>
    ELSE IF v.kind = "string:a" THEN <<"a">>
    ELSE <<"b">>

StringifyMembers(ms, i) ==
    IF i > Len(ms) THEN <<>>
    ELSE (IF i > 1 THEN <<",">> ELSE <<>>)
         \o <<ms[i].key, ":">> \o JsonStringify(ms[i].value)
         \o StringifyMembers(ms, i + 1)

\* The objects a tool invocation block can carry as its `input`.
ScalarValues == {JsonNumber, JsonString("a"), JsonObject(<<>>)}

ToolInputs ==
    {JsonObject(<<>>)}
    \cup {JsonObject(<<[key |-> k, value |-> v]>>) :
            k \in JsonKeys, v \in ScalarValues}
    \cup {JsonObject(<<[key |-> "a", value |-> JsonNumber],
                       [key |-> "b", value |-> JsonString("a")]>>),
          JsonObject(<<[key |-> "b", value |-> JsonString("a")],
                       [key |-> "a", value |-> JsonNumber]>>)}

OutputSchemas == {"PersonSchema", "AnyObjectSchema"}

StructuredModels == {"claude-sonnet-4", "claude-3-7-sonnet"}

StructuredChatOptions ==
    [model : StructuredModels,
     messages : {<<[role |-> "user", content |-> "Return a person object"]>>},
     maxTokens : {"1024"}]

\* The static capability table: which models take a json_schema directive.
SupportsSchema(m) == m = "claude-sonnet-4"

\* Mode selection: by the model alone, once per call.
SelectMode(m) == IF SupportsSchema(m) THEN "schema" ELSE "tool"

schemaModePayload(o, schema) ==
    [model |-> o.model, messages |-> o.messages, max_tokens |-> o.maxTokens,
     stream |-> FALSE,
     output_config |->
        [format |-> [type |-> "json_schema", name |-> "structured_output",
                     schema |-> schema]]]

toolModePayload(o, schema) ==
    [model |-> o.model, messages |-> o.messages, max_tokens |-> o.maxTokens,
     stream |-> FALSE,
     tools |-> <<[name |-> "structured_output",
                  description |-> "Use this tool to provide your response in the required structured format.",
                  input_schema |-> schema]>>,
     tool_choice |-> [type |-> "tool", name |-> "structured_output"]]

\* Responses in schema mode: the sole content block is a text block.
SchemaModeContents ==
    { <<[type |-> "text", text |-> t]>> : t \in SeqsUpTo(JsonTokens, MaxTextLen) }

ToolUseBlock(v) ==
    [type |-> "tool_use", id |-> "toolu_123", name |-> "structured_output",
     input |-> v]

\* Responses in tool mode: the forced tool is invoked, possibly after a text
\* block and possibly more than once.
ToolModeContents ==
    { <<ToolUseBlock(v)>> : v \in ToolInputs }
    \cup { <<[type |-> "text", text |-> <<"a">>], ToolUseBlock(v)>> :
             v \in ToolInputs }
    \cup { <<ToolUseBlock(v), ToolUseBlock(w)>> :
             v \in ToolInputs, w \in {JsonObject(<<>>)} }

\* The index of the first tool_use block of a content list (0 if none).
FirstToolUse(content) ==
    IF \E i \in 1..Len(content) : content[i].type = "tool_use"
    THEN CHOOSE i \in 1..Len(content) :
            /\ content[i].type = "tool_use"
            /\ \A j \in 1..(i - 1) : content[j].type # "tool_use"
    ELSE 0

\* structuredOutput({chatOptions, outputSchema}) up to the `await` of the
\* client call: the mode is selected and the request is issued.
structuredOutput(o, schema) ==
    /\ soPc = "idle"
    /\ soOptions' = o
    /\ soSchema' = schema
    /\ soMode' = SelectMode(o.model)
    /\ soRequests' = Append(soRequests,
          IF SelectMode(o.model) = "schema"
          THEN schemaModePayload(o, schema)
          ELSE toolModePayload(o, schema))
    /\ soPc' = "awaiting"
    /\ UNCHANGED <<soResponse, soResult, soError>>
    /\ UNCHANGED <<facadeVars, adapterVars, messageVars>>

\* Variant: a text that does not parse resolves to a result without data.
schemaModeResolvedNullOnFailure ==
    /\ soPc = "awaiting"
    /\ soMode = "schema"
    /\ \E content \in SchemaModeContents :
          /\ soResponse' = content
          /\ LET rawText == content[1].text
                 parsed == JsonParse(rawText)
             IN /\ soResult' = <<[data |-> IF parsed.ok THEN <<parsed.value>>
                                           ELSE <<>>,
                                  rawText |-> rawText]>>
                /\ soError' = "none"
                /\ soPc' = "done"
          /\ UNCHANGED <<soOptions, soSchema, soMode, soRequests>>
          /\ UNCHANGED <<facadeVars, adapterVars, messageVars>>

\* Schema mode after the await: the text block is rawText and is parsed.
schemaModeResolved ==
    /\ soPc = "awaiting"
    /\ soMode = "schema"
    /\ \E content \in SchemaModeContents :
          /\ soResponse' = content
          /\ LET rawText == content[1].text
                 parsed == JsonParse(rawText)
             IN IF parsed.ok
                THEN /\ soResult' = <<[data |-> <<parsed.value>>,
                                       rawText |-> rawText]>>
                     /\ soError' = "none"
                     /\ soPc' = "done"
                ELSE /\ soResult' = <<>>
                     /\ soError' = "StructuredOutputParseError"
                     /\ soPc' = "failed"
          /\ UNCHANGED <<soOptions, soSchema, soMode, soRequests>>
          /\ UNCHANGED <<facadeVars, adapterVars, messageVars>>

\* Variant: the last content block's input is taken.
toolModeResolvedLastBlock ==
    /\ soPc = "awaiting"
    /\ soMode = "tool"
    /\ \E content \in ToolModeContents :
          /\ soResponse' = content
          /\ LET input == content[Len(content)].input
             IN soResult' = <<[data |-> <<input>>,
                               rawText |-> JsonStringify(input)]>>
          /\ soPc' = "done"
          /\ UNCHANGED <<soOptions, soSchema, soMode, soRequests, soError>>
          /\ UNCHANGED <<facadeVars, adapterVars, messageVars>>

\* Tool mode after the await: the first tool_use block's input is the data.
toolModeResolved ==
    /\ soPc = "awaiting"
    /\ soMode = "tool"
    /\ \E content \in ToolModeContents :
          /\ soResponse' = content
          /\ LET input == content[FirstToolUse(content)].input
             IN soResult' = <<[data |-> <<input>>,
                               rawText |-> JsonStringify(input)]>>
          /\ soPc' = "done"
          /\ UNCHANGED <<soOptions, soSchema, soMode, soRequests, soError>>
          /\ UNCHANGED <<facadeVars, adapterVars, messageVars>>

\* The client call rejects: the error reaches the caller.
structuredOutputRejected ==
    /\ soPc = "awaiting"
    /\ soPc' = "failed"
    /\ soError' = "ProviderTransportError"
    /\ UNCHANGED <<soOptions, soSchema, soMode, soRequests, soResponse,
                   soResult>>
    /\ UNCHANGED <<facadeVars, adapterVars, messageVars>>

(***************************************************************************)
(* Message translation of the Anthropic text adapter: the unified messages *)
(* of a conversation become the `messages` of the provider payload.  The   *)
(* `content` of a provider turn is either a scalar string or a list of     *)
(* content blocks.                                                         *)
(***************************************************************************)

ToolCallIds == {"call_weather", "call_time"}

\* The JSON texts a tool call carries as `arguments`: the same two members
\* in either order.
ArgumentTexts ==
    {JsonStringify(JsonObject(<<[key |-> "a", value |-> JsonNumber],
                                [key |-> "b", value |-> JsonString("a")]>>)),
     JsonStringify(JsonObject(<<[key |-> "b", value |-> JsonString("a")],
                                [key |-> "a", value |-> JsonNumber]>>))}

\* { id, type: 'function', function: { name, arguments } }
ToolCalls ==
    [id : ToolCallIds, type : {"function"},
     function : [name : {"lookup_weather"}, arguments : ArgumentTexts]]

\* The toolCalls of one assistant message: ids unique within the message.
ToolCallLists ==
    {tcs \in SeqsUpTo(ToolCalls, Cardinality(ToolCallIds)) :
        /\ Len(tcs) > 0
        /\ \A i, j \in 1..Len(tcs) : tcs[i].id = tcs[j].id => i = j}

\* The unified messages: plain user and assistant text, an assistant message
\* with text and tool calls, a tool result.
UnifiedMessages ==
    [role : {"user"}, content : {"What is the forecast?"},
     toolCalls : {<<>>}, toolCallId : {"undefined"}]
    \cup [role : {"assistant"}, content : {"Checking"},
          toolCalls : {<<>>} \cup ToolCallLists, toolCallId : {"undefined"}]
    \cup [role : {"tool"}, content : {"{\"temp\":72}"},
          toolCalls : {<<>>}, toolCallId : ToolCallIds]

Conversations == SeqsUpTo(UnifiedMessages, MaxMessages)

ScalarContent(text) == [kind |-> "string", text |-> text, blocks |-> <<>>]

BlockContent(blocks) == [kind |-> "blocks", text |-> "", blocks |-> blocks]

TextBlock(text) == [type |-> "text", text |-> text]

\* A tool invocation block: `input` is the parsed `arguments`.
ToolUseBlockOf(tc) ==
    [type |-> "tool_use", id |-> tc.id, name |-> tc.function.name,
     input |-> JsonParse(tc.function.arguments).value]

ToolResultBlock(m) ==
    [type |-> "tool_result", tool_use_id |-> m.toolCallId,
     content |-> m.content]

\* Variant: the text block is appended after the tool invocation blocks.
formatMessageTextLast(m) ==
    IF m.role = "tool"
    THEN [role |-> "user", content |-> BlockContent(<<ToolResultBlock(m)>>)]
    ELSE IF m.role = "assistant" /\ m.toolCalls # <<>>
    THEN [role |-> "assistant",
          content |-> BlockContent(
              [j \in 1..Len(m.toolCalls) |-> ToolUseBlockOf(m.toolCalls[j])]
              \o <<TextBlock(m.content)>>)]
    ELSE [role |-> m.role, content |-> ScalarContent(m.content)]

\* The provider turn of one unified message.
formatMessage(m) ==
    IF m.role = "tool"
    THEN [role |-> "user", content |-> BlockContent(<<ToolResultBlock(m)>>)]
    ELSE IF m.role = "assistant" /\ m.toolCalls # <<>>
    THEN [role |-> "assistant",
          content |-> BlockContent(
              <<TextBlock(m.content)>>
              \o [j \in 1..Len(m.toolCalls) |->
                    ToolUseBlockOf(m.toolCalls[j])])]
    ELSE [role |-> m.role, content |-> ScalarContent(m.content)]

\* The conversation is translated message by message, in order.
formatMessages(ms) ==
    /\ fmPc = "idle"
    /\ fmMessages' = ms
    /\ fmTurns' = [i \in 1..Len(ms) |-> formatMessage(ms[i])]
    /\ fmPc' = "done"
    /\ UNCHANGED <<facadeVars, adapterVars, structVars>>

(***************************************************************************)
(* The specifications                                                      *)
(***************************************************************************)

\* No invocation of the provider adapter has been made.
AdapterIdle ==
    /\ op = "none"
    /\ opts = <<>>
    /\ pc = "idle"
    /\ requests = <<>>
    /\ response = <<>>
    /\ events = <<>>
    /\ emitted = <<>>
    /\ result = <<>>
    /\ error = "none"
    /\ thrown = "none"
    /\ streamOpen = FALSE

\* No structuredOutput call has been made.
StructuredIdle ==
    /\ soOptions = <<>>
    /\ soSchema = "none"
    /\ soMode = "none"
    /\ soPc = "idle"
    /\ soRequests = <<>>
    /\ soResponse = <<>>
    /\ soResult = <<>>
    /\ soError = "none"

\* No conversation has been translated.
MessagesIdle ==
    /\ fmMessages = <<>>
    /\ fmTurns = <<>>
    /\ fmPc = "idle"

InitFacade ==
    /\ \E a \in Adapters : constructor(a)
    /\ AdapterIdle
    /\ StructuredIdle
    /\ MessagesIdle

\* The calls on the facade that leave its adapter in place.
NextFacadeCalls ==
    \/ adapterName
    \/ \E o \in FacadeOptions : AI_chat(o)
    \/ \E o \in FacadeOptions : AI_chatStream(o)
    \/ \E o \in FacadeOptions : AI_generateText(o)
    \/ \E o \in FacadeOptions : AI_generateTextStream(o)
    \/ \E o \in FacadeOptions : AI_summarize(o)
    \/ \E o \in FacadeOptions : AI_embed(o)
    \/ \E i \in 1..Len(calls), k \in 0..MaxChunks : FirstPull(i, k)
    \/ \E i \in 1..Len(calls) : NextPull(i)
    \/ \E i \in 1..Len(calls) : PullThrows(i)

NextFacade ==
    \/ NextFacadeCalls
    \/ \E a \in Adapters : setAdapter(a)

SpecFacade == InitFacade /\ [][NextFacade]_vars

InitAdapter ==
    /\ AdapterIdle
    /\ StructuredIdle
    /\ MessagesIdle
    /\ adapter = "openai"
    /\ lastSet = "openai"
    /\ firstAdapter = "openai"
    /\ calls = <<>>

NextAdapter ==
    \/ \E o \in ChatCompletionOptions : chatCompletion(o)
    \/ chatCompletionResolved
    \/ \E o \in ChatCompletionOptions : chatCompletionStream(o)
    \/ chatCompletionStreamEvent
    \/ \E o \in TextGenerationOptions : generateText(o)
    \/ generateTextResolved
    \/ \E o \in TextGenerationOptions : generateTextStream(o)
    \/ generateTextStreamEvent
    \/ \E o \in SummarizationOptions : summarize(o)
    \/ summarizeResolved
    \/ \E o \in EmbeddingOptions : createEmbeddings(o)
    \/ createEmbeddingsResolved
    \/ TransportReject
    \/ StreamFirstNext
    \/ StreamOpened
    \/ StreamNext
    \/ StreamEnd
    \/ StreamReadFails
    \/ ConsumerStops

SpecAdapter == InitAdapter /\ [][NextAdapter]_vars

InitStructured ==
    /\ StructuredIdle
    /\ AdapterIdle
    /\ MessagesIdle
    /\ adapter = "anthropic"
    /\ lastSet = "anthropic"
    /\ firstAdapter = "anthropic"
    /\ calls = <<>>

NextStructured ==
    \/ \E o \in StructuredChatOptions, s \in OutputSchemas :
          structuredOutput(o, s)
    \/ schemaModeResolved
    \/ toolModeResolved
    \/ structuredOutputRejected

SpecStructured == InitStructured /\ [][NextStructured]_vars

InitMessages ==
    /\ MessagesIdle
    /\ StructuredIdle
    /\ AdapterIdle
    /\ adapter = "anthropic"
    /\ lastSet = "anthropic"
    /\ firstAdapter = "anthropic"
    /\ calls = <<>>

NextMessages ==
    /\ fmPc = "idle"
    /\ \E ms \in Conversations : formatMessages(ms)

SpecMessages == InitMessages /\ [][NextMessages]_vars

\* A facade constructed with the OpenAI adapter and that adapter side by
\* side: a behaviour follows either calls on the facade or one invocation of
\* the adapter.  The adapter is not swapped here (SpecFacade has the swaps).
NextCore ==
    \/ pc = "idle" /\ NextFacadeCalls
    \/ calls = <<>> /\ NextAdapter

SpecCore == InitAdapter /\ [][NextCore]_vars

(***************************************************************************)
(* Properties                                                              *)
(***************************************************************************)

RECURSIVE Flatten(_)
\* The concatenation, in order, of a sequence of character sequences.
Flatten(ss) == IF ss = <<>> THEN <<>> ELSE Head(ss) \o Flatten(Tail(ss))

\* C1: after any sequence of setAdapter calls, adapterName and every facade
\* operation are served by the adapter of the latest setAdapter (or of the
\* constructor), and by no other: the facade's field is that adapter, every
\* delegation goes to the adapter that was the latest one when it was made,
\* everything produced for the call comes from it, and a call with no swap
\* between its issue and its delegation is served by the adapter bound when
\* it was issued.
C1_ServedByLatestAdapter ==
    /\ adapter = lastSet
    /\ \A i \in 1..Len(calls) :
          LET c == calls[i]
          IN c.servedBy # "none" =>
                /\ c.servedBy = c.expected
                /\ ~c.swapped => c.servedBy = c.issuedUnder
                /\ IF c.method = "adapterName"
                   THEN c.returned = <<c.expected>>
                   ELSE \A j \in 1..Len(c.produced) :
                           c.produced[j].by = c.expected

\* C1 witness: a chat call issued after a swap away from the constructor's
\* adapter has been served.
C1_Witness ==
    \E i \in 1..Len(calls) :
        /\ calls[i].method = "chat"
        /\ calls[i].servedBy # firstAdapter
        /\ calls[i].servedBy = lastSet

\* C2 (as stated): for all six operations the adapter receives exactly the
\* caller's options, `stream` included, and the caller gets exactly what the
\* adapter produced.
C2_OptionsForwardedVerbatim ==
    \A i \in 1..Len(calls) :
        LET c == calls[i]
        IN (c.method # "adapterName" /\ c.servedBy # "none") =>
              /\ c.received = <<c.options>>
              /\ c.state = "done" => c.returned = c.produced

\* C2 (amended): chat, generateText, summarize and embed hand the adapter the
\* caller's options unchanged; chatStream and generateTextStream hand it a
\* copy whose `stream` is true and whose other fields are the caller's; the
\* value or chunk sequence returned equals what the adapter produced.
C2_OptionsForwardedStreamForced ==
    \A i \in 1..Len(calls) :
        LET c == calls[i]
        IN (c.method # "adapterName" /\ c.servedBy # "none") =>
              /\ Len(c.received) = 1
              /\ DOMAIN c.received[1] = DOMAIN c.options
              /\ c.received[1].model = c.options.model
              /\ c.received[1].stream =
                    IF c.method \in StreamMethods THEN "true"
                    ELSE c.options.stream
              /\ Len(c.returned) <= Len(c.produced)
              /\ \A j \in 1..Len(c.returned) : c.returned[j] = c.produced[j]
              /\ c.state = "done" => c.returned = c.produced
              /\ \A j \in 1..Len(c.produced) :
                    c.produced[j].seen = c.received[1]

\* C2 witness: a chatStream call whose caller left `stream` absent has been
\* consumed to the end and returned a chunk.
C2_Witness ==
    \E i \in 1..Len(calls) :
        /\ calls[i].method = "chatStream"
        /\ calls[i].options.stream = "absent"
        /\ calls[i].state = "done"
        /\ Len(calls[i].returned) >= 1

\* The invocation has an empty `model` or an empty primary content field.
EmptyArgument ==
    /\ op # "none"
    /\ \/ opts.model = ""
       \/ op \in {"chatCompletion", "chatCompletionStream"}
            /\ opts.messages = <<>>
       \/ op \in {"generateText", "generateTextStream"} /\ opts.prompt = ""
       \/ op = "summarize" /\ opts.text = ""

\* The body of the operation has run up to (at least) its client call.
BodyRan == pc \in {"awaiting", "reading", "yielded", "done", "failed"}

\* C3 (as stated): with an empty model or primary content field the call
\* fails with InvalidArgument and no outbound request is issued.
C3_EmptyArgumentRejected ==
    EmptyArgument =>
        /\ requests = <<>>
        /\ BodyRan => error = "InvalidArgument"

\* The default model of each operation, as the claim C5 lists them.
DocumentedDefault ==
    CASE op \in {"chatCompletion", "chatCompletionStream", "summarize"} ->
            "gpt-3.5-turbo"
      [] op \in {"generateText", "generateTextStream"} ->
            "gpt-3.5-turbo-instruct"
      [] op = "createEmbeddings" -> "text-embedding-ada-002"

\* C3 (amended): an empty model or primary content field is not rejected
\* locally: no InvalidArgument error is raised and exactly one outbound
\* request is issued, carrying the operation's default model in place of an
\* empty model and the empty content field as given.
C3_EmptyArgumentForwarded ==
    EmptyArgument =>
        /\ error # "InvalidArgument"
        /\ BodyRan =>
              /\ Len(requests) = 1
              /\ opts.model = "" => requests[1].model = DocumentedDefault
              /\ op \in {"chatCompletion", "chatCompletionStream"} =>
                    Len(requests[1].messages) = Len(opts.messages)
              /\ op \in {"generateText", "generateTextStream"} =>
                    requests[1].prompt = opts.prompt
              /\ op = "summarize" =>
                    requests[1].messages[2].content = opts.text

\* C3 witness: a chat completion with empty model and no messages resolved.
C3_Witness ==
    /\ op = "chatCompletion"
    /\ opts.model = ""
    /\ opts.messages = <<>>
    /\ pc = "done"
    /\ Len(requests) = 1

\* C4: an invocation issues exactly one outbound request, whether it
\* succeeds or fails, and never a second one.
C4_ExactlyOneRequest ==
    /\ Len(requests) <= 1
    /\ BodyRan => Len(requests) = 1

\* C4 witness: a streamed chat call consumed to the end after two events.
C4_Witness ==
    /\ op = "chatCompletionStream"
    /\ pc = "done"
    /\ Len(events) >= 2
    /\ Len(requests) = 1

\* C4 witness (failure): a call whose client call was rejected issued one
\* request.
C4_WitnessFailed ==
    /\ pc = "failed"
    /\ error \in TransportErrors
    /\ Len(requests) = 1

\* C5: the payload's model is the options' model when that is non-empty,
\* and the operation's default otherwise.
C5_PayloadModel ==
    \A i \in 1..Len(requests) :
        requests[i].model =
            IF opts.model # "" THEN opts.model ELSE DocumentedDefault

\* C5 witness: an embedding request issued for options with an empty model.
C5_Witness ==
    /\ op = "createEmbeddings"
    /\ opts.model = ""
    /\ Len(requests) = 1
    /\ requests[1].model = "text-embedding-ada-002"

\* The text of the deltas of an event sequence, in order.
DeltaTexts(evs) ==
    [i \in 1..Len(evs) |->
        IF Len(evs[i].choices) > 0
           /\ evs[i].choices[1].delta.content # Null
        THEN evs[i].choices[1].delta.content ELSE <<>>]

\* The non-streamed responses that carry the same model output as an event
\* sequence: the message content is the concatenated delta text (or null
\* when there is none).
EquivalentChatResponses(evs) ==
    LET text == Flatten(DeltaTexts(evs))
    IN { [id |-> "chatcmpl-1", model |-> "gpt-4-0613",
          choices |-> <<[message |-> [content |-> c],
                         finish_reason |-> "stop"]>>,
          usage |-> u] :
           c \in {text} \cup (IF text = <<>> THEN {Null} ELSE {}),
           u \in Usages }

\* C6: the concatenated content of the chunks of a finished chat stream is
\* the content chatCompletion returns for the same response.
C6_StreamContentEqualsResult ==
    (op = "chatCompletionStream" /\ pc = "done") =>
        \A r \in EquivalentChatResponses(events) :
            Flatten([i \in 1..Len(emitted) |-> emitted[i].content])
                = chatCompletionResult(r).content

\* C6 witness: a finished stream whose deltas were "b", "a" in that order
\* has yielded two chunks.
C6_Witness ==
    /\ op = "chatCompletionStream"
    /\ pc = "done"
    /\ Flatten(DeltaTexts(events)) = <<"b", "a">>
    /\ Len(emitted) = 2

\* C6 witness (empty deltas): a finished stream with an empty-string delta
\* and a null response equivalent.
C6_WitnessEmpty ==
    /\ op = "chatCompletionStream"
    /\ pc = "done"
    /\ \E i \in 1..Len(events) :
          /\ Len(events[i].choices) > 0
          /\ events[i].choices[1].delta.content = <<>>
    /\ \E r \in EquivalentChatResponses(events) :
          r.choices[1].message.content = Null

\* An event is terminal when it carries a finish reason or usage totals.
IsTerminalEvent(ev) ==
    \/ ev.usage = "present"
    \/ Len(ev.choices) > 0 /\ ev.choices[1].finish_reason # "null"

\* C7: when the events of a finished chat stream include a terminal event,
\* the chunks end with one final chunk that has the finish reason and a
\* populated usage, and no earlier chunk has a finish reason or usage.
C7_FinalChunkHasFinishAndUsage ==
    (/\ op = "chatCompletionStream"
     /\ pc = "done"
     /\ \E i \in 1..Len(events) : IsTerminalEvent(events[i])) =>
        /\ emitted # <<>>
        /\ emitted[Len(emitted)].finishReason # "null"
        /\ "usage" \in DOMAIN emitted[Len(emitted)]
        /\ \A j \in 1..(Len(emitted) - 1) :
              /\ emitted[j].finishReason = "null"
              /\ "usage" \notin DOMAIN emitted[j]

\* C8: the embeddings of the result are one per input, in input order.
C8_OneEmbeddingPerInput ==
    (op = "createEmbeddings" /\ pc = "done") =>
        LET n == IF opts.input.isList THEN Len(opts.input.items) ELSE 1
        IN /\ Len(result[1].embeddings) = n
           /\ \A i \in 1..n :
                 result[1].embeddings[i] = Vec(opts.input.items[i])

\* C8 witness: a call with a list of two different strings resolved.
C8_Witness ==
    /\ op = "createEmbeddings"
    /\ pc = "done"
    /\ opts.input.isList
    /\ Len(opts.input.items) = 2
    /\ opts.input.items[1] # opts.input.items[2]

\* C8 witness (single string).
C8_WitnessSingle ==
    /\ op = "createEmbeddings"
    /\ pc = "done"
    /\ ~opts.input.isList
    /\ Len(result[1].embeddings) = 1

\* C9: in schema mode a text that does not parse fails the call with a
\* StructuredOutputParseError, with no result, no second request and no
\* tool-use fallback; a text that parses gives data equal to the parsed
\* value and rawText equal to the text.
C9_SchemaModeParse ==
    /\ Len(soRequests) <= 1
    /\ (soMode = "schema" /\ soResponse # <<>>) =>
          LET text == soResponse[1].text
          IN /\ Len(soRequests) = 1
             /\ "tools" \notin DOMAIN soRequests[1]
             /\ IF JsonParse(text).ok
                THEN /\ soPc = "done"
                     /\ soError = "none"
                     /\ soResult = <<[data |-> <<JsonParse(text).value>>,
                                      rawText |-> text]>>
                ELSE /\ soPc = "failed"
                     /\ soError = "StructuredOutputParseError"
                     /\ soResult = <<>>

\* C9 witness: a schema-mode call whose text did not parse has failed.
C9_Witness ==
    /\ soMode = "schema"
    /\ soResponse # <<>>
    /\ ~JsonParse(soResponse[1].text).ok
    /\ soPc = "failed"

\* C9 witness (parsing text): {"a":1} came back as data and rawText.
C9_WitnessParsed ==
    /\ soMode = "schema"
    /\ soPc = "done"
    /\ soResult # <<>>
    /\ soResult[1].rawText = <<"{", "a", ":", "1", "}">>
    /\ soResult[1].data =
          <<JsonObject(<<[key |-> "a", value |-> JsonNumber]>>)>>

\* C10: in tool-use fallback mode the single request has streaming off, no
\* output_config, exactly one tool named structured_output with the caller's
\* schema, and tool_choice pinned to it; data is the first tool_use block's
\* input and rawText its JSON serialization.
C10_ToolModeFallback ==
    (soMode = "tool" /\ soPc # "idle") =>
        /\ Len(soRequests) = 1
        /\ soRequests[1].stream = FALSE
        /\ "output_config" \notin DOMAIN soRequests[1]
        /\ Len(soRequests[1].tools) = 1
        /\ soRequests[1].tools[1].name = "structured_output"
        /\ soRequests[1].tools[1].input_schema = soSchema
        /\ soRequests[1].tool_choice =
              [type |-> "tool", name |-> "structured_output"]
        /\ soPc = "done" =>
              \E i \in 1..Len(soResponse) :
                  /\ soResponse[i].type = "tool_use"
                  /\ \A j \in 1..(i - 1) : soResponse[j].type # "tool_use"
                  /\ soResult[1].data = <<soResponse[i].input>>
                  /\ soResult[1].rawText = JsonStringify(soResponse[i].input)
                  /\ JsonParse(soResult[1].rawText).value = soResponse[i].input

\* C10 witness: a tool-mode call resolved with two tool_use blocks carrying
\* different inputs.
C10_Witness ==
    /\ soMode = "tool"
    /\ soPc = "done"
    /\ Len(soResponse) = 2
    /\ soResponse[1].type = "tool_use"
    /\ soResponse[2].type = "tool_use"
    /\ soResponse[1].input # soResponse[2].input

(***************************************************************************)
(* C14                                                                     *)
(***************************************************************************)

\* C14: a chatStream or generateTextStream call issued while adapter A is
\* bound is served by A for its whole chunk sequence: the adapter invoked for
\* it, and the producer of every chunk handed to the consumer, is the adapter
\* that was bound when the call was issued, also when setAdapter ran between
\* the call and the first pull or between two pulls.
C14_StreamServedByIssuingAdapter ==
    \A i \in 1..Len(calls) :
        (calls[i].method \in StreamMethods /\ calls[i].state # "suspended")
            => /\ calls[i].servedBy = calls[i].issuedUnder
               /\ \A j \in 1..Len(calls[i].returned) :
                      calls[i].returned[j].by = calls[i].issuedUnder

(***************************************************************************)
(* C15                                                                     *)
(***************************************************************************)

\* The event carries a non-empty text delta.
HasTextDelta(ev) ==
    /\ Len(ev.choices) > 0
    /\ ev.choices[1].delta.content # Null
    /\ ev.choices[1].delta.content # <<>>

\* C15: chatCompletionStream emits exactly one chunk per provider event that
\* carries a non-empty text delta, in the order of the events, each chunk
\* copying that event's id and model and carrying exactly that delta as
\* content; events with no emittable text emit nothing; and role "assistant"
\* appears on no emitted chunk other than the first one.
C15_OneChunkPerDeltaRoleOnFirst ==
    op = "chatCompletionStream" =>
        LET textEvents == SelectSeq(events, HasTextDelta)
        IN /\ Len(emitted) = Len(textEvents)
           /\ \A j \in 1..Len(emitted) :
                 /\ emitted[j].id = textEvents[j].id
                 /\ emitted[j].model = textEvents[j].model
                 /\ emitted[j].content = textEvents[j].choices[1].delta.content
           /\ \A j \in 2..Len(emitted) : emitted[j].role # "assistant"

(***************************************************************************)
(* C13                                                                     *)
(***************************************************************************)

\* A next() of the consumer is pending on the adapter's generator.
PullPending == op \in StreamOps /\ pc \in {"awaiting", "reading"}

\* The event is one the running stream operation yields a chunk for.
Emittable(ev) ==
    /\ Len(ev.choices) > 0
    /\ IF op = "chatCompletionStream"
       THEN /\ ev.choices[1].delta.content # Null
            /\ ev.choices[1].delta.content # <<>>
       ELSE /\ ev.choices[1].text # Null
            /\ ev.choices[1].text # <<>>

\* Nothing is done for a stream before its first pull (the facade has not
\* invoked the adapter, the adapter has not called the client), no event that
\* was read is held back unprocessed, the generator is suspended at a yield
\* only right after the chunk of the last event read, and a stream the
\* consumer left is closed.
C13_NothingAhead ==
    /\ \A i \in 1..Len(calls) :
          (calls[i].method \in StreamMethods /\ calls[i].state = "suspended")
             => /\ calls[i].servedBy = "none"
                /\ calls[i].received = <<>>
                /\ calls[i].produced = <<>>
                /\ calls[i].returned = <<>>
    /\ op \in StreamOps =>
          /\ pc = "suspended" =>
                requests = <<>> /\ events = <<>> /\ ~streamOpen
          /\ Len(emitted) = Len(SelectSeq(events, Emittable))
          /\ pc = "yielded" =>
                events # <<>> /\ Emittable(events[Len(events)])
          /\ pc = "closed" => ~streamOpen

\* A step of a stream operation issues the request only by starting a pull,
\* reads an event only during a pull, reads one event at a time and suspends
\* at the yield of an emittable event before anything else is read; after the
\* consumer stopped, nothing is requested, read or emitted any more.  A step
\* of the facade hands the consumer at most one more chunk of a stream call.
C13_StepIsPulled ==
    /\ \A i \in 1..Len(calls) :
          (i <= Len(calls') /\ calls[i].method \in StreamMethods) =>
             /\ Len(calls'[i].returned) <= Len(calls[i].returned) + 1
             /\ calls'[i].received # calls[i].received =>
                   calls[i].state = "suspended"
    /\ op \in StreamOps =>
          /\ requests' # requests => pc = "suspended" /\ PullPending'
          /\ events' # events =>
                /\ PullPending
                /\ pc = "reading"
                /\ Len(events') = Len(events) + 1
                /\ SubSeq(events', 1, Len(events)) = events
                /\ IF Emittable(events'[Len(events')])
                   THEN pc' = "yielded" /\ Len(emitted') = Len(emitted) + 1
                   ELSE emitted' = emitted
          /\ emitted' # emitted => events' # events
          /\ pc = "closed" =>
                /\ pc' = "closed"
                /\ requests' = requests
                /\ events' = events
                /\ emitted' = emitted
                /\ ~streamOpen'

\* C13: streamed sequences are pull-based: the outbound request and every
\* read of a provider event happen only while a consumer pull (next) is
\* pending, each event is processed and, if emittable, yielded before the
\* following event is read, and once the consumer stops iterating early no
\* further provider event is read and the underlying transport iteration is
\* closed.
C13_PullBased == [](C13_NothingAhead) /\ [][C13_StepIsPulled]_vars

\* C13 witness: the consumer stopped after the first chunk, one event read
\* and the stream closed.
C13_Witness ==
    /\ op = "chatCompletionStream"
    /\ pc = "closed"
    /\ Len(events) = 1
    /\ Len(emitted) = 1
    /\ Len(requests) = 1
    /\ ~streamOpen

(***************************************************************************)
(* C12                                                                     *)
(***************************************************************************)

\* Whatever the provider client threw is what the caller got, the operation
\* has failed and has no result; and no error reaches a caller that the
\* client did not throw.
C12_ErrorIsTheThrownOne ==
    /\ error = thrown
    /\ thrown # "none" => pc = "failed" /\ result = <<>>
    /\ \A i \in 1..Len(calls) :
          calls[i].method # "adapterName" =>
             /\ calls[i].error = calls[i].thrown
             /\ calls[i].thrown # "none" =>
                   /\ calls[i].state = "failed"
                   /\ calls[i].method \in PromiseMethods =>
                         calls[i].returned = <<>>

\* A failing step hands out no chunk and no result, and a failed operation
\* stays failed: nothing more is requested, read, emitted or resolved, and
\* the error is not replaced.
C12_FailureIsFinal ==
    /\ (thrown = "none" /\ thrown' # "none") =>
          emitted' = emitted /\ result' = <<>>
    /\ pc = "failed" =>
          /\ pc' = "failed"
          /\ error' = error
          /\ emitted' = emitted
          /\ result' = result
          /\ requests' = requests
    /\ \A i \in 1..Len(calls) :
          calls[i].state = "failed" =>
             /\ Len(calls') >= i
             /\ calls'[i] = calls[i]
    /\ \A i \in 1..Len(calls) :
          (i <= Len(calls') /\ calls[i].state # "failed"
             /\ calls'[i].state = "failed") =>
                calls'[i].returned = calls[i].returned

\* C12: if the provider transport fails during any facade or adapter
\* operation (on the request, or on any read of an open stream), the same
\* error reaches the caller unmodified: the operation never resolves to a
\* result, a streamed call yields no further chunks after the failure, and
\* neither the adapter nor the facade catches the error or replaces it with a
\* softer outcome such as an empty string.
C12_TransportErrorPropagates ==
    [](C12_ErrorIsTheThrownOne) /\ [][C12_FailureIsFinal]_vars

\* C12 witness: a chat stream whose second read failed after one chunk was
\* yielded.
C12_Witness ==
    /\ op = "chatCompletionStream"
    /\ pc = "failed"
    /\ thrown = "RateLimitError"
    /\ Len(emitted) = 1
    /\ Len(events) = 1

\* C12 witness on the facade: a chatStream call that failed on a pull after
\* one chunk was handed out.
C12_WitnessFacade ==
    \E i \in 1..Len(calls) :
        /\ calls[i].method = "chatStream"
        /\ calls[i].state = "failed"
        /\ calls[i].thrown = "APIConnectionError"
        /\ Len(calls[i].returned) = 1

(***************************************************************************)
(* C11                                                                     *)
(***************************************************************************)

\* Turn t is the translation the claim describes of unified message m.
TurnMatches(m, t) ==
    IF m.role = "tool"
    THEN /\ t.role = "user"
         /\ t.content.kind = "blocks"
         /\ Len(t.content.blocks) = 1
         /\ t.content.blocks[1].type = "tool_result"
         /\ t.content.blocks[1].tool_use_id = m.toolCallId
    ELSE IF m.role = "assistant" /\ m.toolCalls # <<>>
    THEN /\ t.role = "assistant"
         /\ t.content.kind = "blocks"
         /\ Len(t.content.blocks) = 1 + Len(m.toolCalls)
         /\ t.content.blocks[1] = [type |-> "text", text |-> m.content]
         /\ \A j \in 1..Len(m.toolCalls) :
               LET b == t.content.blocks[1 + j]
                   tc == m.toolCalls[j]
               IN /\ b.type = "tool_use"
                  /\ b.id = tc.id
                  /\ b.name = tc.function.name
                  /\ JsonParse(tc.function.arguments).ok
                  /\ b.input = JsonParse(tc.function.arguments).value
                  /\ JsonStringify(b.input) = tc.function.arguments
    ELSE /\ t.role = m.role
         /\ t.content.kind = "string"
         /\ t.content.text = m.content

\* C11: when a conversation is translated to provider messages, the provider
\* turns keep the order of the unified messages; an assistant message with
\* text and k tool calls becomes one assistant turn whose content is the text
\* block followed by k tool-invocation blocks in tool-call order, each with
\* the call's id, name and the argument object parsed from its JSON
\* arguments (serializing it gives the arguments back); each tool-role
\* message becomes one user turn whose content is exactly one tool-result
\* block whose tool_use_id equals the message's toolCallId; plain text
\* messages keep scalar string content.
C11_MessagesTranslatedInOrder ==
    fmPc = "done" =>
        /\ Len(fmTurns) = Len(fmMessages)
        /\ \A i \in 1..Len(fmMessages) :
              TurnMatches(fmMessages[i], fmTurns[i])

\* C11 witness: the conversation user text, assistant text with two tool
\* calls whose arguments differ in member order, tool result for the second
\* call; three turns came out.
C11_Witness ==
    /\ fmPc = "done"
    /\ Len(fmMessages) = 3
    /\ fmMessages[1].role = "user"
    /\ fmMessages[2].role = "assistant"
    /\ Len(fmMessages[2].toolCalls) = 2
    /\ fmMessages[2].toolCalls[1].function.arguments
          # fmMessages[2].toolCalls[2].function.arguments
    /\ fmMessages[3].role = "tool"
    /\ fmMessages[3].toolCallId = fmMessages[2].toolCalls[2].id
    /\ Len(fmTurns) = 3
    /\ Len(fmTurns[2].content.blocks) = 3

=============================================================================
